---- MODULE Spec2Model ----
(***************************************************************************)
(* Bollinger-band squeeze alert: the signal pipeline of API/cron.py        *)
(* (handler.do_GET, a serverless HTTP trigger) and alert_scheduler.py      *)
(* (main_execution, a scheduled standalone run).                           *)
(*                                                                         *)
(* Conventions of the model                                                *)
(*  - time is the UTC epoch clock in whole seconds;                        *)
(*  - a Python string is a sequence of text fragments;                     *)
(*  - None / an absent dictionary key is the empty sequence, a present     *)
(*    value v is <<v>>;                                                    *)
(*  - closes are integers (price in a fixed unit); the band width, a       *)
(*    float in the code, is kept exact as sign and square num/den, with    *)
(*    the float specials "nan" and "inf".                                  *)
(***************************************************************************)
EXTENDS Integers, Sequences, FiniteSets, TLC

\* ------------------------------------------------------------------------
\* Configuration (module-level constants of the two source files)
\* ------------------------------------------------------------------------

BOLLINGER_PERIOD == 20

\* BOLLINGER_STD = 2.0
BOLLINGER_STD == 2

\* SQUEEZE_THRESHOLD as the fraction num/den: 0.002 in API/cron.py,
\* 0.0002 in alert_scheduler.py
SQUEEZE_THRESHOLD(entry) ==
    IF entry = "do_GET" THEN [num |-> 2, den |-> 1000]
                        ELSE [num |-> 2, den |-> 10000]

EXCLUDED_HOURS == {7, 8, 9, 12, 13, 14}

ALERT_COOLDOWN == 3600

\* ------------------------------------------------------------------------
\* Bounds of the model
\* ------------------------------------------------------------------------

\* invocation slots: one when the scheduler serialises the invocations,
\* two when it lets them overlap
Invocations == {1, 2}
Serial == {1}

\* total number of invocations started in one behaviour
MaxRuns == 2

\* number of clock advances in one behaviour
MaxTicks == 2

\* the clock at the first invocation: one cooldown past the epoch, the
\* earliest clock at which "nothing stored" (0) is outside the cooldown
ClockStart == ALERT_COOLDOWN

\* clock advances: half a cooldown, and six hours (into the excluded hours)
TickSteps == {1800, 21600}

\* ------------------------------------------------------------------------
\* Provider payloads: rows [t |-> timestamp, c |-> close]; a close is an
\* integer, "null" (JSON null) or "bad" (a non-numeric string)
\* ------------------------------------------------------------------------

Row(t, kind, c) == [t |-> t, kind |-> kind, c |-> c]

\* n bars, newest first (the order Twelve Data answers in), all closes c
\* except the newest, which is c + d
NewestFirst(n, c, d) ==
    [k \in 1..n |-> Row(n + 1 - k, "num", IF k = 1 THEN c + d ELSE c)]

\* n bars, oldest first, all closes c except the newest, which is c + d
OldestFirst(n, c, d) ==
    [k \in 1..n |-> Row(k, "num", IF k = n THEN c + d ELSE c)]

\* n bars, newest first, the closes alternately c and -c
Alternating(n, c) ==
    [k \in 1..n |-> Row(n + 1 - k, "num", IF k % 2 = 1 THEN c ELSE 0 - c)]

\* the rows of s, those at the positions in ps being of the given kind
WithKind(s, ps, kind) ==
    [k \in 1..Len(s) |-> IF k \in ps THEN Row(s[k].t, kind, 0) ELSE s[k]]

\* the rows of s, the one at position k carrying the timestamp t
WithTime(s, k, t) ==
    [j \in 1..Len(s) |-> IF j = k THEN Row(t, s[j].kind, s[j].c) ELSE s[j]]

\* ------------------------------------------------------------------------
\* pandas / float helpers
\* ------------------------------------------------------------------------

\* f applied to v, with v evaluated once: what a Python assignment to a
\* local name does
Let(v, f(_)) == CHOOSE r \in {f(x) : x \in {v}} : TRUE

RECURSIVE InsertByT(_, _)
InsertByT(s, r) ==
    IF s = <<>> THEN <<r>>
    ELSE IF s[Len(s)].t <= r.t THEN Append(s, r)
    ELSE Append(InsertByT(SubSeq(s, 1, Len(s) - 1), r), s[Len(s)])

\* DataFrame.sort_index(): the rows in ascending order of the index
RECURSIVE sort_index(_)
sort_index(s) ==
    IF s = <<>> THEN <<>>
    ELSE InsertByT(sort_index(SubSeq(s, 1, Len(s) - 1)), s[Len(s)])

\* DataFrame.dropna(): the rows without a missing value
dropna(s) == SelectSeq(s, LAMBDA r : r.kind # "null")

RECURSIVE SumCloses(_, _, _)
SumCloses(s, lo, hi) ==
    IF lo > hi THEN 0 ELSE s[hi].c + SumCloses(s, lo, hi - 1)

RECURSIVE SumSquares(_, _, _)
SumSquares(s, lo, hi) ==
    IF lo > hi THEN 0 ELSE s[hi].c * s[hi].c + SumSquares(s, lo, hi - 1)

\* a/b < c/d for a, c >= 0 and b, d > 0, by comparing the integer parts and
\* then the inverted fractional parts (no product is formed)
RECURSIVE RatLess(_, _, _, _)
RatLess(a, b, c, d) ==
    Let(<<a, b, c, d>>, LAMBDA x :
        Let(<<x[1] \div x[2], x[3] \div x[4], x[1] % x[2], x[3] % x[4]>>,
            LAMBDA y :
                IF y[1] # y[2] THEN y[1] < y[2]
                ELSE IF y[4] = 0 THEN FALSE
                ELSE IF y[3] = 0 THEN TRUE
                ELSE RatLess(x[4], y[4], x[2], y[3])))

NaN == [kind |-> "nan", neg |-> FALSE, num |-> 0, den |-> 1]
Inf == [kind |-> "inf", neg |-> FALSE, num |-> 0, den |-> 1]

\* the float x with x*x = num/den and the given sign
Num(neg, num, den) == [kind |-> "num", neg |-> neg, num |-> num, den |-> den]

\* variant: bw <= th
FloatLessEq(bw, th) ==
    CASE bw.kind = "nan" -> FALSE
      [] bw.kind = "inf" -> FALSE
      [] OTHER ->
           IF bw.neg THEN TRUE
           ELSE ~RatLess(th.num * th.num, th.den * th.den, bw.num, bw.den)

\* variant: not (bw >= th), which is true of NaN
FloatNotGreaterEq(bw, th) ==
    CASE bw.kind = "nan" -> TRUE
      [] bw.kind = "inf" -> FALSE
      [] OTHER ->
           IF bw.neg THEN TRUE
           ELSE RatLess(bw.num, bw.den, th.num * th.num, th.den * th.den)

\* float comparison  bw < th  for a threshold th = num/den > 0; every
\* comparison with NaN is false, and +inf is below nothing
FloatLess(bw, th) ==
    Let(bw, LAMBDA b :
        CASE b.kind = "nan" -> FALSE
          [] b.kind = "inf" -> FALSE
          [] OTHER ->
               IF b.neg THEN TRUE
               ELSE RatLess(b.num, b.den, th.num * th.num, th.den * th.den))

\* Python values whose type matters downstream: a comparison on a
\* numpy.float64 yields a numpy.bool_, which is not a Python bool
PyBool(v) == [type |-> "bool", v |-> v]
NpBool(v) == [type |-> "numpy.bool_", v |-> v]

\* x and y  (Python): x if x is falsy, else y
PyAnd(x, y) == IF x.v THEN y ELSE x

None == <<>>

\* ------------------------------------------------------------------------
\* Data fetching
\* ------------------------------------------------------------------------

\* what requests.get meets at the primary provider: a transport error, or
\* an HTTP status with a JSON object that has a "values" array (rows) or
\* has none (and possibly a "message")
PrimaryResponses ==
    { [net |-> "timeout", status |-> 0, has_values |-> FALSE,
       message |-> None, rows |-> <<>>],
      [net |-> "ok", status |-> 200, has_values |-> FALSE,
       message |-> <<"rate limit">>, rows |-> <<>>],
      [net |-> "ok", status |-> 200, has_values |-> TRUE,
       message |-> None, rows |-> WithKind(NewestFirst(20, 100, 0), {3}, "bad")],
      [net |-> "ok", status |-> 500, has_values |-> TRUE,
       message |-> None, rows |-> NewestFirst(20, 100, 10)],
      [net |-> "ok", status |-> 200, has_values |-> TRUE,
       message |-> None, rows |-> NewestFirst(21, 500, 1)],
      [net |-> "ok", status |-> 200, has_values |-> TRUE,
       message |-> None, rows |-> NewestFirst(20, 100, 0)],
      [net |-> "ok", status |-> 200, has_values |-> TRUE,
       message |-> None, rows |-> NewestFirst(19, 100, 0)],
      [net |-> "ok", status |-> 200, has_values |-> TRUE,
       message |-> None, rows |-> NewestFirst(20, 0, 0)],
      [net |-> "ok", status |-> 200, has_values |-> TRUE,
       message |-> None, rows |-> Alternating(20, 1)] }

\* what requests.get meets at the fallback provider: a transport error, or
\* an HTTP status with a JSON object whose chart result is null or holds
\* the timestamp and quote vectors (rows)
FallbackResponses ==
    { [net |-> "timeout", status |-> 0, has_result |-> FALSE, rows |-> <<>>],
      [net |-> "ok", status |-> 404, has_result |-> FALSE, rows |-> <<>>],
      [net |-> "ok", status |-> 200, has_result |-> TRUE,
       rows |-> WithKind(OldestFirst(22, 100, 0), {5, 22}, "null")],
      [net |-> "ok", status |-> 200, has_result |-> TRUE,
       rows |-> WithKind(OldestFirst(21, 100, 0), {1, 20}, "null")],
      [net |-> "ok", status |-> 200, has_result |-> TRUE,
       rows |-> OldestFirst(20, 100, 10)],
      [net |-> "ok", status |-> 200, has_result |-> TRUE,
       rows |-> WithTime(OldestFirst(21, 100, 0), 21, 20)] }

\* the responses met while invocations overlap
OverlapPrimaryResponses ==
    {r \in PrimaryResponses :
        \/ r.net = "timeout"
        \/ r.has_values /\ r.rows \in {NewestFirst(20, 100, 0),
                                        NewestFirst(20, 100, 10)}}

OverlapFallbackResponses ==
    {r \in FallbackResponses : r.net = "timeout" \/ Len(r.rows) = 22}

Fetched(df, error) == [df |-> df, error |-> error]

\* variant: the fallback is asked whatever the primary returned
needs_fallback_always(df) == TRUE

\* if df is None: (after the primary fetch)
needs_fallback(df) == df = None

\* Response.raise_for_status() raises for a 4xx or 5xx status
raises_for_status(status) == status >= 400

\* fetch_twelve_data: (df, None) or (None, error)
fetch_twelve_data(entry, resp) ==
    LET prefix == IF entry = "main_execution" THEN <<"Request failed: ">>
                  ELSE <<>>
    IN  IF resp.net # "ok"
          THEN Fetched(None, prefix \o <<"timed out">>)
        ELSE IF entry = "main_execution" /\ raises_for_status(resp.status)
          THEN Fetched(None, prefix \o <<"HTTP ", ToString(resp.status)>>)
        ELSE IF ~resp.has_values
          THEN Fetched(None, <<"API Error: ">> \o
                   (IF resp.message = None THEN <<"Unknown">> ELSE resp.message))
        ELSE IF resp.rows = <<>>
          THEN Fetched(None, <<"'datetime'">>)
        ELSE IF \E k \in 1..Len(resp.rows) : resp.rows[k].kind = "bad"
          THEN Fetched(None, <<"could not convert string to float">>)
        ELSE Fetched(<<sort_index(resp.rows)>>, None)

\* fetch_yahoo_fallback: (df, None) or (None, error)
fetch_yahoo_fallback(entry, resp) ==
    LET prefix == IF entry = "main_execution" THEN <<"Yahoo fetch failed: ">>
                  ELSE <<>>
    IN  IF resp.net # "ok"
          THEN Fetched(None, prefix \o <<"timed out">>)
        ELSE IF entry = "main_execution" /\ raises_for_status(resp.status)
          THEN Fetched(None, prefix \o <<"HTTP ", ToString(resp.status)>>)
        ELSE IF ~resp.has_result
          THEN Fetched(None, prefix \o <<"'NoneType' object is not subscriptable">>)
        ELSE Fetched(<<sort_index(dropna(resp.rows))>>, None)

\* ------------------------------------------------------------------------
\* Technical analysis
\* ------------------------------------------------------------------------

\* calculate_bollinger_bands: the Band_Width column, one value per row.
\* With S the sum and Q the sum of squares of the window's n closes:
\*   SMA = S/n, STD^2 = (n*Q - S*S) / (n*(n-1))   (sample deviation),
\*   Band_Width = 2*std*STD / SMA, so
\*   Band_Width^2 = 4*std^2 * n * (n*Q - S*S) / ((n-1) * S*S)
calculate_bollinger_bands(df, period, std) ==
    [i \in 1..Len(df) |->
        IF i < period THEN NaN
        ELSE Let(<<SumCloses(df, i - period + 1, i),
                   SumSquares(df, i - period + 1, i)>>, LAMBDA w :
                 LET S == w[1]
                     Q == w[2]
                     V == period * Q - S * S
                 IN  IF S = 0 THEN (IF V = 0 THEN NaN ELSE Inf)
                     ELSE Num(S < 0 /\ V > 0,
                              4 * std * std * period * V, (period - 1) * S * S))]

\* variant: one bar short still counts as enough
insufficient_off_by_one(rows) == Len(rows) < BOLLINGER_PERIOD - 1

\* len(df) < BOLLINGER_PERIOD
insufficient(rows) == Len(rows) < BOLLINGER_PERIOD

\* the hour of datetime.now(timezone.utc)
HourOf(now) == (now \div 3600) % 24

\* analyze_market, "Check conditions": the squeeze and hour tests and the
\* signal
evaluate(band_width, threshold, current_hour, excluded) ==
    LET is_squeeze    == NpBool(FloatLess(band_width, threshold))
        is_valid_hour == PyBool(current_hour \notin excluded)
    IN  [is_squeeze    |-> is_squeeze,
         is_valid_hour |-> is_valid_hour,
         signal        |-> PyAnd(is_squeeze, is_valid_hour)]

\* the result dictionary analyze_market starts from (its 'timestamp' text
\* is not modelled), with the keys do_GET may add later still absent
NewResult ==
    [status |-> "error", message |-> <<>>, data |-> <<>>,
     alert_sent |-> <<>>, alert_error |-> <<>>,
     cooldown_active |-> <<>>, cooldown_remaining |-> <<>>]

\* analyze_market after the fetches: the result for the fetched frame df
\* (None when both fetches failed, with the error then held)
analyze_market(entry, result, df, error, now) ==
    IF df = None
      THEN [result EXCEPT !.message = <<"Data fetch failed: ">> \o error]
    ELSE IF insufficient(df[1])
      THEN [result EXCEPT !.message =
                <<"Insufficient data: ", ToString(Len(df[1])), " bars">>]
    ELSE LET rows       == df[1]
             Band_Width == calculate_bollinger_bands(rows, BOLLINGER_PERIOD,
                                                     BOLLINGER_STD)
         IN  Let(Band_Width[Len(rows)], LAMBDA band_width :
             Let(evaluate(band_width, SQUEEZE_THRESHOLD(entry),
                          HourOf(now), EXCLUDED_HOURS), LAMBDA checked :
                 [result EXCEPT
                    !.status = "success",
                    !.data = << [price         |-> rows[Len(rows)].c,
                                 band_width    |-> band_width,
                                 threshold     |-> SQUEEZE_THRESHOLD(entry),
                                 is_squeeze    |-> checked.is_squeeze,
                                 current_hour  |-> HourOf(now),
                                 is_valid_hour |-> checked.is_valid_hour,
                                 signal        |-> checked.signal,
                                 bars_analyzed |-> Len(rows)] >>]))

\* ------------------------------------------------------------------------
\* State
\* ------------------------------------------------------------------------

VARIABLES
    inv,      \* per invocation: position, locals, and what it did so far
    clock,    \* datetime.now(timezone.utc).timestamp()
    ticks,    \* clock advances so far
    runs,     \* invocations started so far
    stored,   \* the persisted last-alert time (0: nothing stored)
    sent,     \* the alerts the messaging endpoint delivered, in order
    ev        \* inputs and output of one stand-alone evaluation

vars == <<inv, clock, ticks, runs, stored, sent, ev>>

\* ------------------------------------------------------------------------
\* State management and notification
\* ------------------------------------------------------------------------

\* variant: the time of the last alert delivered is read back
get_last_alert_time_persisted ==
    IF sent = <<>> THEN 0 ELSE sent[Len(sent)].at

\* get_last_alert_time: "Simplified - always allow first alert"
get_last_alert_time == 0

\* set_last_alert_time(timestamp): pass; the stored value stays as it is
set_last_alert_time(persisted, timestamp) == persisted

\* variant: the boundary excluded
cooldown_elapsed_strict(time_since) == time_since > ALERT_COOLDOWN

\* the cooldown test  time_since >= ALERT_COOLDOWN
cooldown_elapsed(time_since) == time_since >= ALERT_COOLDOWN

\* int((ALERT_COOLDOWN - time_since) / 60)
remaining_minutes(time_since) == (ALERT_COOLDOWN - time_since) \div 60

\* what the POST to the messaging endpoint meets
PostOutcomes == {"ok", "rejected", "timed out"}

\* send_telegram_message (through send_trade_alert): (success, msg) and
\* whether a POST was made
send_telegram_message(entry, configured, outcome) ==
    IF ~configured
      THEN [success |-> FALSE, msg |-> <<"Telegram not configured">>,
            posted |-> FALSE]
    ELSE IF outcome = "ok"
      THEN [success |-> TRUE, msg |-> <<"Sent">>, posted |-> TRUE]
    ELSE IF entry = "main_execution"
      THEN [success |-> FALSE,
            msg |-> <<"Telegram request failed: ", outcome, " - Response: ",
                      IF outcome = "rejected" THEN outcome ELSE "N/A">>,
            posted |-> TRUE]
    ELSE [success |-> FALSE, msg |-> <<outcome>>, posted |-> TRUE]

\* json.dumps(result) raises TypeError on a value that is no JSON type: a
\* numpy.bool_ is none
json_serializable(result) ==
    \/ result.data = <<>>
    \/ /\ result.data[1].is_squeeze.type = "bool"
       /\ result.data[1].is_valid_hour.type = "bool"
       /\ result.data[1].signal.type = "bool"

Entries == {"do_GET", "main_execution"}

Terminal == {"done", "exited", "crashed"}

Idle ==
    [pc |-> "idle", run |-> 0, entry |-> "do_GET", configured |-> FALSE,
     during |-> {}, queries |-> <<>>, df |-> None, error |-> None,
     analysed |-> None,
     result |-> NewResult, computed |-> FALSE, evaluated |-> <<>>,
     gate |-> <<>>,
     posts |-> 0, delivered |-> <<>>, printed |-> <<>>, reasons |-> <<>>,
     http_status |-> 0, body |-> <<>>, exc |-> "none"]

NoEval ==
    [band_width |-> NaN, threshold |-> [num |-> 1, den |-> 1], hour |-> 0,
     excluded |-> {}, out |-> <<>>]

Init ==
    /\ inv = [i \in Invocations |-> Idle]
    /\ clock = ClockStart
    /\ ticks = 0
    /\ runs = 0
    /\ stored = 0
    /\ sent = <<>>
    /\ ev = NoEval

\* ------------------------------------------------------------------------
\* One invocation
\* ------------------------------------------------------------------------

\* the invocations under way
Running == {inv[j].run : j \in {k \in Invocations :
                                   inv[k].pc \notin {"idle"} \cup Terminal}}

\* The trigger fires: do_GET is entered, or main_execution, which checks the
\* environment first and exits the process without credentials.
Start(i, entry, configured) ==
    /\ inv[i].pc \in {"idle"} \cup Terminal
    /\ \A j \in Invocations : j < i => inv[j].pc \notin {"idle"} \cup Terminal
    /\ runs < MaxRuns
    /\ runs' = runs + 1
    /\ inv' = [inv EXCEPT ![i] =
         IF entry = "main_execution" /\ ~configured
           THEN [Idle EXCEPT !.pc = "exited", !.run = runs + 1, !.entry = entry,
                             !.configured = configured, !.during = Running,
                             !.exc = "SystemExit"]
           ELSE [Idle EXCEPT !.pc = "fetch_primary", !.run = runs + 1,
                             !.entry = entry, !.configured = configured,
                             !.during = Running]]
    /\ UNCHANGED <<clock, ticks, stored, sent, ev>>

\* analyze_market begins: the result skeleton, then the primary fetch
FetchPrimary(i, resp) ==
    /\ inv[i].pc = "fetch_primary"
    /\ LET ret == fetch_twelve_data(inv[i].entry, resp)
       IN  inv' = [inv EXCEPT
             ![i].result = NewResult,
             ![i].queries = Append(@, [provider |-> "primary", ret |-> ret]),
             ![i].df = ret.df,
             ![i].error = ret.error,
             ![i].pc = IF needs_fallback(ret.df) THEN "fetch_fallback"
                       ELSE "analyze"]
    /\ UNCHANGED <<clock, ticks, runs, stored, sent, ev>>

\* variant: the fallback's frame is taken, the primary's error is kept
FetchFallback_keep_error(i, resp) ==
    /\ inv[i].pc = "fetch_fallback"
    /\ LET ret == fetch_yahoo_fallback(inv[i].entry, resp)
       IN  inv' = [inv EXCEPT
             ![i].queries = Append(@, [provider |-> "secondary", ret |-> ret]),
             ![i].df = ret.df,
             ![i].pc = "analyze"]
    /\ UNCHANGED <<clock, ticks, runs, stored, sent, ev>>

\* variant: a failed fallback is asked again
FetchFallback_retry(i, resp) ==
    /\ inv[i].pc = "fetch_fallback"
    /\ LET ret == fetch_yahoo_fallback(inv[i].entry, resp)
       IN  inv' = [inv EXCEPT
             ![i].queries = Append(@, [provider |-> "secondary", ret |-> ret]),
             ![i].df = ret.df,
             ![i].error = ret.error,
             ![i].pc = IF ret.df = None /\ Len(inv[i].queries) < 2
                         THEN "fetch_fallback" ELSE "analyze"]
    /\ UNCHANGED <<clock, ticks, runs, stored, sent, ev>>

\* if df is None: the fallback fetch
FetchFallback(i, resp) ==
    /\ inv[i].pc = "fetch_fallback"
    /\ LET ret == fetch_yahoo_fallback(inv[i].entry, resp)
       IN  inv' = [inv EXCEPT
             ![i].queries = Append(@, [provider |-> "secondary", ret |-> ret]),
             ![i].df = ret.df,
             ![i].error = ret.error,
             ![i].pc = "analyze"]
    /\ UNCHANGED <<clock, ticks, runs, stored, sent, ev>>

\* the rest of analyze_market: the length checks, the bands, the evaluation
Analyze(i) ==
    /\ inv[i].pc = "analyze"
    /\ \E me \in {inv[i]} :
       \E result \in {analyze_market(me.entry, me.result, me.df, me.error,
                                      clock)} :
           inv' = [inv EXCEPT
             ![i].result = result,
             ![i].computed = (result.status = "success"),
             ![i].evaluated = result.data,
             ![i].analysed = me.df,
             ![i].df = None,
             ![i].error = None,
             ![i].pc = IF result.status = "error" THEN "error"
                       ELSE IF result.data[1].signal.v THEN "signal"
                       ELSE "no_signal"]
    /\ UNCHANGED <<clock, ticks, runs, stored, sent, ev>>

\* result['status'] == 'error': do_GET answers 500 with the report,
\* main_execution prints the message and returns
HandleError(i) ==
    /\ inv[i].pc = "error"
    /\ inv' = [inv EXCEPT
         ![i].http_status = IF inv[i].entry = "do_GET" THEN 500 ELSE 0,
         ![i].body = IF inv[i].entry = "do_GET" THEN <<inv[i].result>> ELSE <<>>,
         ![i].pc = "done"]
    /\ UNCHANGED <<clock, ticks, runs, stored, sent, ev>>

\* data['signal']: read the last alert time and test the cooldown
CheckCooldown(i) ==
    /\ inv[i].pc = "signal"
    /\ LET last_alert == get_last_alert_time
           time_since == clock - last_alert
           armed      == cooldown_elapsed(time_since)
       IN  inv' = [inv EXCEPT
             ![i].gate = <<[now |-> clock, last_alert |-> last_alert,
                            armed |-> armed]>>,
             ![i].printed =
                 IF armed THEN @
                 ELSE <<"Cooldown active: ",
                        ToString(remaining_minutes(time_since)),
                        " min remaining">>,
             ![i].result =
                 IF armed \/ inv[i].entry = "main_execution" THEN @
                 ELSE [@ EXCEPT
                         !.cooldown_active = <<TRUE>>,
                         !.cooldown_remaining =
                             <<ToString(remaining_minutes(time_since)),
                               " minutes">>],
             ![i].pc = IF armed THEN "send" ELSE "respond"]
    /\ UNCHANGED <<clock, ticks, runs, stored, sent, ev>>

\* variant: a delivery that failed is attempted once more
SendAlert_retry(i, outcome) ==
    /\ inv[i].pc = "send"
    /\ LET me == inv[i]
           r  == send_telegram_message(me.entry, me.configured, outcome)
       IN  /\ inv' = [inv EXCEPT
                ![i].posts = IF r.posted THEN @ + 1 ELSE @,
                ![i].delivered = <<r>>,
                ![i].printed = IF r.success THEN <<"Alert sent successfully">>
                               ELSE <<"Alert failed: ">> \o r.msg,
                ![i].result =
                    IF me.entry = "main_execution" THEN @
                    ELSE IF r.success THEN [@ EXCEPT !.alert_sent = <<TRUE>>]
                    ELSE [@ EXCEPT !.alert_error = <<r.msg>>],
                ![i].pc = IF r.posted /\ ~r.success /\ me.posts = 0
                            THEN "send" ELSE "respond"]
           /\ stored' = IF r.success THEN set_last_alert_time(stored, clock)
                        ELSE stored
           /\ sent' = IF r.success
                        THEN Append(sent, [by |-> me.run, at |-> clock,
                                           during |-> me.during])
                      ELSE sent
    /\ UNCHANGED <<clock, ticks, runs, ev>>

\* variant: a delivery that failed turns the result into an error result
SendAlert_fatal(i, outcome) ==
    /\ inv[i].pc = "send"
    /\ LET me == inv[i]
           r  == send_telegram_message(me.entry, me.configured, outcome)
       IN  /\ inv' = [inv EXCEPT
                ![i].posts = IF r.posted THEN @ + 1 ELSE @,
                ![i].delivered = <<r>>,
                ![i].printed = IF r.success THEN <<"Alert sent successfully">>
                               ELSE <<"Alert failed: ">> \o r.msg,
                ![i].result =
                    IF r.success
                      THEN (IF me.entry = "main_execution" THEN @
                            ELSE [@ EXCEPT !.alert_sent = <<TRUE>>])
                    ELSE [@ EXCEPT !.status = "error", !.message = r.msg,
                                   !.data = <<>>],
                ![i].pc = "respond"]
           /\ stored' = IF r.success THEN set_last_alert_time(stored, clock)
                        ELSE stored
           /\ sent' = IF r.success
                        THEN Append(sent, [by |-> me.run, at |-> clock,
                                           during |-> me.during])
                      ELSE sent
    /\ UNCHANGED <<clock, ticks, runs, ev>>

\* variant: alert_sent is always set, to whether the delivery succeeded
SendAlert_sent_flag(i, outcome) ==
    /\ inv[i].pc = "send"
    /\ LET me == inv[i]
           r  == send_telegram_message(me.entry, me.configured, outcome)
       IN  /\ inv' = [inv EXCEPT
                ![i].posts = IF r.posted THEN @ + 1 ELSE @,
                ![i].delivered = <<r>>,
                ![i].printed = IF r.success THEN <<"Alert sent successfully">>
                               ELSE <<"Alert failed: ">> \o r.msg,
                ![i].result =
                    IF me.entry = "main_execution" THEN @
                    ELSE IF r.success THEN [@ EXCEPT !.alert_sent = <<TRUE>>]
                    ELSE [@ EXCEPT !.alert_sent = <<FALSE>>,
                                   !.alert_error = <<r.msg>>],
                ![i].pc = "respond"]
           /\ stored' = IF r.success THEN set_last_alert_time(stored, clock)
                        ELSE stored
           /\ sent' = IF r.success
                        THEN Append(sent, [by |-> me.run, at |-> clock,
                                           during |-> me.during])
                      ELSE sent
    /\ UNCHANGED <<clock, ticks, runs, ev>>

\* the cooldown has elapsed: send the alert, and record its time on success
SendAlert(i, outcome) ==
    /\ inv[i].pc = "send"
    /\ LET me == inv[i]
           r  == send_telegram_message(me.entry, me.configured, outcome)
       IN  /\ inv' = [inv EXCEPT
                ![i].posts = IF r.posted THEN @ + 1 ELSE @,
                ![i].delivered = <<r>>,
                ![i].printed = IF r.success THEN <<"Alert sent successfully">>
                               ELSE <<"Alert failed: ">> \o r.msg,
                ![i].result =
                    IF me.entry = "main_execution" THEN @
                    ELSE IF r.success THEN [@ EXCEPT !.alert_sent = <<TRUE>>]
                    ELSE [@ EXCEPT !.alert_error = <<r.msg>>],
                ![i].pc = "respond"]
           /\ stored' = IF r.success THEN set_last_alert_time(stored, clock)
                        ELSE stored
           /\ sent' = IF r.success
                        THEN Append(sent, [by |-> me.run, at |-> clock,
                                           during |-> me.during])
                      ELSE sent
    /\ UNCHANGED <<clock, ticks, runs, ev>>

\* variant: only the first reason that applies is listed
NoSignal_first_reason(i) ==
    /\ inv[i].pc = "no_signal"
    /\ LET data == inv[i].result.data[1]
       IN  inv' = [inv EXCEPT
             ![i].reasons =
                 IF ~data.is_squeeze.v THEN <<"No squeeze">>
                 ELSE IF ~data.is_valid_hour.v THEN <<"Invalid hour">>
                 ELSE <<>>,
             ![i].pc = "respond"]
    /\ UNCHANGED <<clock, ticks, runs, stored, sent, ev>>

\* no signal: the reasons, which are printed
NoSignal(i) ==
    /\ inv[i].pc = "no_signal"
    /\ LET data == inv[i].result.data[1]
       IN  inv' = [inv EXCEPT
             ![i].reasons =
                 (IF ~data.is_squeeze.v THEN <<"No squeeze">> ELSE <<>>) \o
                 (IF ~data.is_valid_hour.v THEN <<"Invalid hour">> ELSE <<>>),
             ![i].pc = "respond"]
    /\ UNCHANGED <<clock, ticks, runs, stored, sent, ev>>

\* the end of a completed evaluation: do_GET sends the 200 header and then
\* serializes the report, main_execution returns
Respond(i) ==
    /\ inv[i].pc = "respond"
    /\ inv' = [inv EXCEPT ![i] =
         IF @.entry = "main_execution" THEN [@ EXCEPT !.pc = "done"]
         ELSE IF json_serializable(@.result)
           THEN [@ EXCEPT !.http_status = 200, !.body = <<@.result>>,
                          !.pc = "done"]
         ELSE [@ EXCEPT !.http_status = 200, !.exc = "TypeError",
                        !.pc = "crashed"]]
    /\ UNCHANGED <<clock, ticks, runs, stored, sent, ev>>

\* time passes
Tick(d) ==
    /\ ticks < MaxTicks
    /\ ticks' = ticks + 1
    /\ clock' = clock + d
    /\ UNCHANGED <<inv, runs, stored, sent, ev>>

\* invocations one at a time
Next ==
    \/ \E i \in Serial, entry \in Entries, configured \in BOOLEAN :
           Start(i, entry, configured)
    \/ \E i \in Serial, resp \in PrimaryResponses : FetchPrimary(i, resp)
    \/ \E i \in Serial, resp \in FallbackResponses : FetchFallback(i, resp)
    \/ \E i \in Serial : Analyze(i)
    \/ \E i \in Serial : HandleError(i)
    \/ \E i \in Serial : CheckCooldown(i)
    \/ \E i \in Serial, outcome \in PostOutcomes : SendAlert(i, outcome)
    \/ \E i \in Serial : NoSignal(i)
    \/ \E i \in Serial : Respond(i)
    \/ \E d \in TickSteps : Tick(d)

Spec == Init /\ [][Next]_vars

\* the steps of invocation i: it runs on one thread, and each blocking call
\* it makes (requests.get, requests.post with timeout=10) returns or raises
Proceed(i) ==
    \/ \E resp \in PrimaryResponses : FetchPrimary(i, resp)
    \/ \E resp \in FallbackResponses : FetchFallback(i, resp)
    \/ Analyze(i)
    \/ HandleError(i)
    \/ CheckCooldown(i)
    \/ \E outcome \in PostOutcomes : SendAlert(i, outcome)
    \/ NoSignal(i)
    \/ Respond(i)

\* an invocation under way is not suspended for ever
SpecLive == Spec /\ \A i \in Serial : WF_vars(Proceed(i))

\* invocations that may overlap
NextOverlap ==
    \/ \E i \in Invocations, entry \in Entries, configured \in BOOLEAN :
           Start(i, entry, configured)
    \/ \E i \in Invocations, resp \in OverlapPrimaryResponses :
           FetchPrimary(i, resp)
    \/ \E i \in Invocations, resp \in OverlapFallbackResponses :
           FetchFallback(i, resp)
    \/ \E i \in Invocations : Analyze(i)
    \/ \E i \in Invocations : HandleError(i)
    \/ \E i \in Invocations : CheckCooldown(i)
    \/ \E i \in Invocations, outcome \in PostOutcomes : SendAlert(i, outcome)
    \/ \E i \in Invocations : NoSignal(i)
    \/ \E i \in Invocations : Respond(i)
    \/ \E d \in TickSteps : Tick(d)

SpecOverlap == Init /\ [][NextOverlap]_vars

\* ------------------------------------------------------------------------
\* The evaluation on its own: inputs drawn from bounded sets
\* ------------------------------------------------------------------------

EvalBandWidths ==
    { NaN, Inf, Num(FALSE, 0, 1), Num(TRUE, 1, 4),
      Num(FALSE, 3, 1000000), Num(FALSE, 4, 1000000), Num(FALSE, 5, 1000000),
      Num(FALSE, 3, 100000000), Num(FALSE, 4, 100000000),
      Num(FALSE, 5, 100000000) }

EvalThresholds == {SQUEEZE_THRESHOLD(e) : e \in Entries}

EvalExcluded == {EXCLUDED_HOURS, {}, {0, 23}, 0..23}

InitEval ==
    /\ inv = [i \in Invocations |-> Idle]
    /\ clock = ClockStart
    /\ ticks = 0
    /\ runs = 0
    /\ stored = 0
    /\ sent = <<>>
    /\ ev \in [band_width : EvalBandWidths, threshold : EvalThresholds,
               hour : 0..23, excluded : EvalExcluded, out : {<<>>}]

Evaluate ==
    /\ ev.out = <<>>
    /\ ev' = [ev EXCEPT !.out =
                 <<evaluate(ev.band_width, ev.threshold, ev.hour, ev.excluded)>>]
    /\ UNCHANGED <<inv, clock, ticks, runs, stored, sent>>

NextEval == Evaluate

SpecEval == InitEval /\ [][NextEval]_vars

\* ------------------------------------------------------------------------
\* Properties
\* ------------------------------------------------------------------------

\* analyze_market has returned in invocation i
Analysed(i) ==
    inv[i].pc \in {"error", "signal", "no_signal", "send", "respond",
                   "done", "crashed"}

\* the alerts delivered by a run other than that of invocation i
EarlierAlerts(i) == {k \in 1..Len(sent) : sent[k].by # inv[i].run}

\* C1: cooldown suppression. After an alert was delivered at time t, an
\* invocation with a signal that tests the cooldown at a time t' with
\* t <= t' < t + ALERT_COOLDOWN finds the cooldown active and sends no alert.
C1_CooldownSuppression ==
    \A i \in Invocations :
        inv[i].gate # <<>> =>
            \A k \in EarlierAlerts(i) :
                (/\ sent[k].at <= inv[i].gate[1].now
                 /\ inv[i].gate[1].now < sent[k].at + ALERT_COOLDOWN)
                => /\ ~inv[i].gate[1].armed
                   /\ inv[i].delivered = <<>>

\* C2: the re-arm boundary. The cooldown test lets the alert through exactly
\* when now - last_alert >= ALERT_COOLDOWN, the boundary included: an
\* invocation is at or past the send exactly when its test found that; a test
\* made ALERT_COOLDOWN after an earlier alert finds the cooldown elapsed; and
\* with nothing stored (0) the cooldown has elapsed.
C2_RearmBoundary ==
    \A i \in Invocations :
        inv[i].gate # <<>> =>
            LET g == inv[i].gate[1]
            IN  /\ g.armed = (g.now - g.last_alert >= ALERT_COOLDOWN)
                /\ (inv[i].pc = "send" \/ inv[i].delivered # <<>>) = g.armed
                /\ \A k \in EarlierAlerts(i) :
                       g.now = sent[k].at + ALERT_COOLDOWN => g.armed
                /\ g.last_alert = 0 => g.armed

\* an invocation tests the cooldown exactly ALERT_COOLDOWN after the alert of
\* an earlier one, and exactly ALERT_COOLDOWN after the time it read
C2_Witness ==
    \E i \in Invocations :
        /\ inv[i].gate # <<>>
        /\ inv[i].pc = "send"
        /\ \E k \in EarlierAlerts(i) :
               /\ inv[i].gate[1].now = sent[k].at + ALERT_COOLDOWN
               /\ sent[k].at = inv[i].gate[1].last_alert + ALERT_COOLDOWN

\* the alerts a and b of sent came from invocations that overlapped
Overlapped(a, b) == a.by \in b.during \/ b.by \in a.during

\* C3: of two overlapping invocations that both see a signal, at most one
\* delivers an alert within one ALERT_COOLDOWN window.
C3_NoDoubleDispatch ==
    \A a, b \in 1..Len(sent) :
        (a < b /\ Overlapped(sent[a], sent[b]))
        => sent[b].at - sent[a].at >= ALERT_COOLDOWN

\* C4: every invocation that has ended returned a report whose status is
\* success or error; no exception and no process exit ended it.
C4_AlwaysReports ==
    \A i \in Invocations :
        inv[i].pc \in Terminal =>
            /\ inv[i].exc = "none"
            /\ inv[i].body # <<>>
            /\ inv[i].body[1].status \in {"success", "error"}

\* C5: without messaging credentials the run does not fail: the notifier,
\* when reached, answers (False, "Telegram not configured") without a POST,
\* and the invocation fetched its data and ended without an exception or exit.
C5_MissingCredentialsSoft ==
    \A i \in Invocations :
        (inv[i].pc \in Terminal /\ ~inv[i].configured) =>
            /\ inv[i].exc = "none"
            /\ inv[i].queries # <<>>
            /\ inv[i].posts = 0
            /\ inv[i].delivered # <<>> =>
                   /\ ~inv[i].delivered[1].success
                   /\ inv[i].delivered[1].msg = <<"Telegram not configured">>

Providers(i) == [k \in 1..Len(inv[i].queries) |-> inv[i].queries[k].provider]

PrimaryFailed(i) ==
    /\ Len(inv[i].queries) >= 1
    /\ inv[i].queries[1].ret.df = None

BothFailed(i) ==
    /\ Len(inv[i].queries) = 2
    /\ inv[i].queries[1].ret.df = None
    /\ inv[i].queries[2].ret.df = None

\* the report is the 'Data fetch failed' error
DataFetchFailed(i) ==
    /\ inv[i].result.status = "error"
    /\ Len(inv[i].result.message) >= 1
    /\ inv[i].result.message[1] = "Data fetch failed: "

Contains(m, t) ==
    \E k \in 0..(Len(m) - Len(t)) : SubSeq(m, k + 1, k + Len(t)) = t

\* C8 as stated: when both providers fail the message holds the error of the
\* primary and the error of the secondary.
C8_BothErrorsInMessage ==
    \A i \in Invocations :
        (Analysed(i) /\ BothFailed(i)) =>
            /\ Contains(inv[i].result.message, inv[i].queries[1].ret.error)
            /\ Contains(inv[i].result.message, inv[i].queries[2].ret.error)

\* C8 amended: when both providers fail the message is 'Data fetch failed: '
\* followed by the error of the secondary provider and nothing else.
C8_SecondaryErrorOnly ==
    \A i \in Invocations :
        (Analysed(i) /\ BothFailed(i)) =>
            inv[i].result.message =
                <<"Data fetch failed: ">> \o inv[i].queries[2].ret.error

\* both providers failed, with different errors, and the report is made
C8_Witness ==
    \E i \in Invocations :
        /\ inv[i].pc \in Terminal
        /\ BothFailed(i)
        /\ inv[i].queries[1].ret.error # inv[i].queries[2].ret.error
        /\ ~Contains(inv[i].result.message, inv[i].queries[1].ret.error)

\* C9: a fetched series shorter than BOLLINGER_PERIOD ends the invocation in
\* the 'Insufficient data' error: no bands are computed, there is no
\* evaluation, the cooldown is not read and no alert is sent.
C9_InsufficientData ==
    \A i \in Invocations :
        (/\ Analysed(i)
         /\ inv[i].analysed # None
         /\ Len(inv[i].analysed[1]) < BOLLINGER_PERIOD) =>
            /\ inv[i].result.status = "error"
            /\ inv[i].result.message =
                   <<"Insufficient data: ", ToString(Len(inv[i].analysed[1])),
                     " bars">>
            /\ inv[i].result.data = <<>>
            /\ ~inv[i].computed
            /\ inv[i].gate = <<>>
            /\ inv[i].delivered = <<>>
            /\ inv[i].posts = 0
            /\ inv[i].pc \in {"error", "done"}

\* an ended invocation whose series had BOLLINGER_PERIOD - 1 bars
C9_Witness ==
    \E i \in Invocations :
        /\ inv[i].pc = "done"
        /\ inv[i].analysed # None
        /\ Len(inv[i].analysed[1]) = BOLLINGER_PERIOD - 1

\* bw < th, by cross-multiplying the squares
Below(bw, th) ==
    /\ bw.kind = "num"
    /\ \/ bw.neg /\ bw.num > 0
       \/ bw.num * th.den * th.den < th.num * th.num * bw.den

\* C10: the evaluation has is_squeeze = (band_width < threshold), strictly,
\* is_valid_hour = (hour not excluded) and signal = both, whatever the band
\* width, the threshold, the hour and the excluded hours.
C10_Evaluation ==
    ev.out # <<>> =>
        /\ ev.out[1].is_squeeze.v = Below(ev.band_width, ev.threshold)
        /\ ev.out[1].is_valid_hour.v = (ev.hour \notin ev.excluded)
        /\ ev.out[1].signal.v =
               (ev.out[1].is_squeeze.v /\ ev.out[1].is_valid_hour.v)

\* a band width equal to the threshold, at an allowed hour, was evaluated
C10_Witness ==
    /\ ev.out # <<>>
    /\ ev.band_width.kind = "num"
    /\ ev.band_width.num * ev.threshold.den * ev.threshold.den
           = ev.threshold.num * ev.threshold.num * ev.band_width.den
    /\ ev.hour \notin ev.excluded
    /\ ~ev.out[1].signal.v

\* the four conditions of a dispatch, read off what the invocation did: a
\* provider returned a series, it has the period's bars, the evaluation gave
\* a signal, and the cooldown check found the cooldown elapsed
Dispatchable(i) ==
    /\ inv[i].queries # <<>>
    /\ inv[i].queries[Len(inv[i].queries)].ret.df # None
    /\ inv[i].analysed # None
    /\ Len(inv[i].analysed[1]) >= BOLLINGER_PERIOD
    /\ inv[i].result.data # <<>>
    /\ inv[i].result.data[1].signal.v
    /\ inv[i].gate # <<>>
    /\ inv[i].gate[1].armed

\* C11 as stated: an invocation makes exactly one POST to the messaging
\* endpoint when the fetch succeeded, the series has the period's bars, there
\* is a signal and the cooldown has elapsed, and none in every other case.
C11_DispatchIff ==
    \A i \in Invocations :
        inv[i].pc \in Terminal =>
            inv[i].posts = IF Dispatchable(i) THEN 1 ELSE 0

\* C11 amended: send_trade_alert is called exactly when the four conditions
\* hold; the call makes one POST when both credentials are set and none when
\* one is missing; no invocation makes a second POST, whatever the first met.
C11_DispatchIffConfigured ==
    \A i \in Invocations :
        /\ inv[i].posts <= 1
        /\ inv[i].pc \in Terminal =>
              /\ (inv[i].delivered # <<>>) = Dispatchable(i)
              /\ inv[i].posts =
                    IF Dispatchable(i) /\ inv[i].configured THEN 1 ELSE 0

\* a finished invocation whose one POST failed
C11_Witness ==
    \E i \in Invocations :
        /\ inv[i].pc \in Terminal
        /\ Dispatchable(i)
        /\ inv[i].posts = 1
        /\ ~inv[i].delivered[1].success

\* C12: the persisted last-alert time is the time of the last alert that was
\* delivered, and it is still 0 when none was: it is written on a successful
\* delivery, with the time of that delivery, and on no other path.
C12_StoreWritten ==
    stored = IF sent = <<>> THEN 0 ELSE sent[Len(sent)].at

\* C13: a do_GET invocation that has ended answered 200 when it completed an
\* evaluation and 500 when the data could not be fetched or the series was
\* too short, and in both cases the body it sent is the report.
C13_StatusAndBody ==
    \A i \in Invocations :
        (inv[i].pc \in Terminal /\ inv[i].entry = "do_GET") =>
            /\ inv[i].http_status =
                   IF inv[i].result.status = "error" THEN 500 ELSE 200
            /\ inv[i].body = <<inv[i].result>>

\* an invocation whose POST to the messaging endpoint failed
DeliveryFailed(i) ==
    /\ inv[i].delivered # <<>>
    /\ inv[i].posts = 1
    /\ ~inv[i].delivered[1].success

\* C14: after a POST that failed the result still has status success, its
\* data is the data the evaluation computed before the send, and the error of
\* the delivery is recorded: printed by both entry points, and kept under
\* alert_error in the result of do_GET.
C14_DeliveryFailureNonTerminal ==
    \A i \in Invocations :
        DeliveryFailed(i) =>
            /\ inv[i].result.status = "success"
            /\ inv[i].evaluated # <<>>
            /\ inv[i].result.data = inv[i].evaluated
            /\ inv[i].printed = <<"Alert failed: ">> \o inv[i].delivered[1].msg
            /\ inv[i].entry = "do_GET" =>
                   inv[i].result.alert_error = <<inv[i].delivered[1].msg>>
            /\ inv[i].result.alert_sent = <<>>

\* a do_GET invocation that ended after a POST that timed out
C14_Witness ==
    \E i \in Invocations :
        /\ DeliveryFailed(i)
        /\ inv[i].pc \in Terminal
        /\ inv[i].entry = "do_GET"
        /\ inv[i].result.alert_error = <<<<"timed out">>>>

\* the closes of the latest window of the analysed series add up to zero,
\* so the latest moving average is zero
ZeroAverage(i) ==
    /\ inv[i].analysed # None
    /\ Len(inv[i].analysed[1]) >= BOLLINGER_PERIOD
    /\ SumCloses(inv[i].analysed[1],
                 Len(inv[i].analysed[1]) - BOLLINGER_PERIOD + 1,
                 Len(inv[i].analysed[1])) = 0

\* C15: when the latest moving average is zero the analysis still succeeds,
\* the band width in its data is NaN or infinite, is_squeeze and signal are
\* false, and the invocation neither checks the cooldown nor sends an alert.
C15_ZeroAverage ==
    \A i \in Invocations :
        ZeroAverage(i) =>
            /\ inv[i].result.status = "success"
            /\ inv[i].result.data # <<>>
            /\ inv[i].result.data[1].band_width.kind \in {"nan", "inf"}
            /\ ~inv[i].result.data[1].is_squeeze.v
            /\ ~inv[i].result.data[1].signal.v
            /\ inv[i].pc \notin {"error", "signal", "send"}
            /\ inv[i].gate = <<>>
            /\ inv[i].delivered = <<>>
            /\ inv[i].posts = 0

\* an invocation that ended after analysing twenty closes of 0 at a valid
\* hour: the band width is NaN and the one reason is the missing squeeze
C15_Witness ==
    \E i \in Invocations :
        /\ ZeroAverage(i)
        /\ inv[i].pc \in Terminal
        /\ inv[i].result.data[1].band_width = NaN
        /\ inv[i].result.data[1].is_valid_hour.v
        /\ inv[i].reasons = <<"No squeeze">>

\* C16: an invocation with a signal that tests the cooldown less than
\* ALERT_COOLDOWN after the last alert delivered before it sends no alert and
\* reports the cooldown: it prints the whole minutes that remain, and do_GET
\* marks its result cooldown_active with cooldown_remaining "N minutes".
C16_CooldownReported ==
    \A i \in Invocations :
        inv[i].gate # <<>> =>
            \A k \in EarlierAlerts(i) :
                (/\ \A j \in EarlierAlerts(i) : j <= k
                 /\ sent[k].at <= inv[i].gate[1].now
                 /\ inv[i].gate[1].now < sent[k].at + ALERT_COOLDOWN)
                => LET remaining ==
                           (ALERT_COOLDOWN - (inv[i].gate[1].now - sent[k].at))
                               \div 60
                   IN  /\ inv[i].delivered = <<>>
                       /\ inv[i].posts = 0
                       /\ inv[i].printed = <<"Cooldown active: ",
                                             ToString(remaining),
                                             " min remaining">>
                       /\ inv[i].entry = "do_GET" =>
                            /\ inv[i].result.cooldown_active = <<TRUE>>
                            /\ inv[i].result.cooldown_remaining =
                                   <<ToString(remaining), " minutes">>

\* the reason r is one of the reasons invocation i listed
Listed(i, r) == \E k \in 1..Len(inv[i].reasons) : inv[i].reasons[k] = r

\* C17: an invocation that evaluated to no signal and went past the no-signal
\* branch listed 'No squeeze' exactly when is_squeeze is false and 'Invalid
\* hour' exactly when is_valid_hour is false, nothing else, and at least one.
C17_Reasons ==
    \A i \in Invocations :
        (/\ inv[i].pc \in {"respond", "done", "crashed"}
         /\ inv[i].result.status = "success"
         /\ ~inv[i].result.data[1].signal.v) =>
            /\ Listed(i, "No squeeze") = ~inv[i].result.data[1].is_squeeze.v
            /\ Listed(i, "Invalid hour") =
                   ~inv[i].result.data[1].is_valid_hour.v
            /\ \A k \in 1..Len(inv[i].reasons) :
                   inv[i].reasons[k] \in {"No squeeze", "Invalid hour"}
            /\ Len(inv[i].reasons) \in 1..2

\* a squeeze at an excluded hour: the one reason is the hour
C17_Witness ==
    \E i \in Invocations :
        /\ inv[i].pc \in Terminal
        /\ inv[i].result.status = "success"
        /\ inv[i].result.data[1].is_squeeze.v
        /\ inv[i].result.data[1].current_hour \in EXCLUDED_HOURS
        /\ inv[i].reasons = <<"Invalid hour">>

\* C18: with the store as shipped every cooldown test reads 0 and finds the
\* cooldown elapsed, nothing is ever stored, and every invocation with a
\* signal that went past the test called the notifier, however recent the
\* last alert.
C18_DegradedStore ==
    /\ stored = 0
    /\ \A i \in Invocations :
        /\ inv[i].gate # <<>> =>
              /\ inv[i].gate[1].last_alert = 0
              /\ inv[i].gate[1].armed
        /\ (/\ inv[i].pc \in {"respond", "done", "crashed"}
            /\ inv[i].result.status = "success"
            /\ inv[i].result.data[1].signal.v) =>
              /\ inv[i].gate # <<>>
              /\ inv[i].delivered # <<>>
              /\ inv[i].configured => inv[i].posts = 1

\* an alert is delivered in the very second the previous one was
C18_Witness ==
    \E i \in Invocations :
        /\ inv[i].pc \in Terminal
        /\ inv[i].delivered # <<>>
        /\ inv[i].delivered[1].success
        /\ \E k \in EarlierAlerts(i) : sent[k].at = inv[i].gate[1].now

\* C19: every series a provider path returned is in strictly ascending order
\* of timestamp, so without a repeated timestamp, and has no row with a
\* missing or non-numeric value; its last row is the one bar with the
\* greatest timestamp.
C19_SeriesWellFormed ==
    \A i \in Invocations :
        \A q \in 1..Len(inv[i].queries) :
            inv[i].queries[q].ret.df # None =>
                LET df == inv[i].queries[q].ret.df[1]
                IN  /\ \A a, b \in 1..Len(df) : a < b => df[a].t < df[b].t
                    /\ \A a \in 1..Len(df) : df[a].kind = "num"

\* the blocking outbound calls invocation i has made: the provider queries
\* and the POSTs to the messaging endpoint
OutboundCalls(i) == Len(inv[i].queries) + inv[i].posts

\* C20: no invocation makes more than three outbound calls (at most one
\* query to each provider and one POST), and every invocation under way
\* comes to its end.
C20_Terminates ==
    /\ [](\A i \in Invocations :
             /\ OutboundCalls(i) <= 3
             /\ Len(inv[i].queries) <= 2
             /\ inv[i].posts <= 1)
    /\ \A i \in Serial :
           (inv[i].pc \notin {"idle"} \cup Terminal) ~> (inv[i].pc \in Terminal)

\* an invocation that ended after the primary query, the fallback query
\* and one POST
C20_Witness ==
    \E i \in Invocations :
        /\ inv[i].pc \in Terminal
        /\ Len(inv[i].queries) = 2
        /\ inv[i].posts = 1

\* how many of alert_sent, alert_error and cooldown_active the result of
\* invocation i has
OutcomeKeys(i) ==
    (IF inv[i].result.alert_sent # <<>> THEN 1 ELSE 0)
    + (IF inv[i].result.alert_error # <<>> THEN 1 ELSE 0)
    + (IF inv[i].result.cooldown_active # <<>> THEN 1 ELSE 0)

\* C21: the result do_GET has built when it answers has exactly one of
\* alert_sent, alert_error and cooldown_active when there is a signal and
\* none of them when there is no signal or the status is error; and
\* cooldown_remaining is never there without cooldown_active.
C21_OutcomeKeysExclusive ==
    \A i \in Invocations :
        inv[i].entry = "do_GET" =>
            /\ OutcomeKeys(i) <= 1
            /\ inv[i].result.cooldown_remaining # <<>> =>
                   inv[i].result.cooldown_active # <<>>
            /\ inv[i].pc \in {"respond", "done", "crashed"} =>
                   OutcomeKeys(i) =
                       IF /\ inv[i].result.status = "success"
                          /\ inv[i].result.data[1].signal.v
                         THEN 1 ELSE 0

\* a do_GET invocation with a signal ended with alert_error as its one
\* outcome key, after a POST that was rejected
C21_Witness ==
    \E i \in Invocations :
        /\ inv[i].entry = "do_GET"
        /\ inv[i].pc \in Terminal
        /\ inv[i].result.data # <<>>
        /\ inv[i].result.data[1].signal.v
        /\ inv[i].result.alert_error = <<<<"rejected">>>>
        /\ inv[i].result.alert_sent = <<>>

====
